---------------------------- MODULE Spec2Model ----------------------------
(***************************************************************************)
(* A model of the waste-not backend: the meal-plan / recipe generation     *)
(* pipeline (prompt builder, generation call, response sanitizer, JSON     *)
(* decoder, fault mapping) of src/server.js and of the earlier server      *)
(* variant src/unnamed/part_000, and the record-store routes (saved plans, *)
(* favourite meals) of src/server.js.                                      *)
(*                                                                         *)
(* Strings are sequences of one-character strings.  Inside a prompt the    *)
(* fixed stretches of a template are single elements of the sequence, so   *)
(* that a prompt is the concatenation the template literal builds and      *)
(* "the prompt carries sentence X" is membership.                          *)
(***************************************************************************)
EXTENDS Integers, Sequences, FiniteSets

VARIABLES
    reqs,            \* request id -> the request's handler state and response
    meal_plans,      \* table meal_plans: rows [id, meal_plan_data, created_at]
    favorite_meals,  \* table favorite_meals: rows [id, meal_data, created_at]
    nextPlanId,      \* the autoincrement counter of meal_plans
    nextFavId,       \* the autoincrement counter of favorite_meals
    clock,           \* the store's timestamp source
    saved,           \* history: the mealPlan of every save answered 201, in order
    sanIn,           \* sanitizer harness: the input text
    sanOut,          \* sanitizer harness: the outputs of the successive applications
    pbReq            \* prompt-builder harness: two payloads and their prompts

vars == <<reqs, meal_plans, favorite_meals, nextPlanId, nextFavId, clock, saved,
          sanIn, sanOut, pbReq>>

(***************************************************************************)
(* Bounds.                                                                 *)
(***************************************************************************)
\* how many pieces a text handed to the sanitizer harness is built from
MaxPieces == 3
\* how many requests the record-store routes receive in one behaviour
MaxReq == 3

(***************************************************************************)
(* JavaScript strings.                                                     *)
(***************************************************************************)
\* String.prototype.trim: the characters it strips (of the modelled alphabet)
IsWs(c) == c \in {" ", "\n", "\t", "\r", "\f"}

RECURSIVE TrimStart(_)
TrimStart(s) ==
    IF s # <<>> /\ IsWs(Head(s)) THEN TrimStart(Tail(s)) ELSE s

RECURSIVE TrimEnd(_)
TrimEnd(s) ==
    IF s # <<>> /\ IsWs(s[Len(s)]) THEN TrimEnd(SubSeq(s, 1, Len(s) - 1)) ELSE s

Trim(s) == TrimEnd(TrimStart(s))

StartsWith(s, p) == Len(s) >= Len(p) /\ SubSeq(s, 1, Len(p)) = p

EndsWith(s, p) == Len(s) >= Len(p) /\ SubSeq(s, Len(s) - Len(p) + 1, Len(s)) = p

\* s.substring(k): the characters from index k (0-based) on
Substring(s, k) == SubSeq(s, k + 1, Len(s))

RECURSIVE Concat(_)
Concat(ss) == IF ss = <<>> THEN <<>> ELSE Head(ss) \o Concat(Tail(ss))

\* Array.prototype.join
RECURSIVE Join(_, _)
Join(ss, sep) ==
    IF ss = <<>> THEN <<>>
    ELSE IF Len(ss) = 1 THEN ss[1]
    ELSE ss[1] \o sep \o Join(Tail(ss), sep)

Range(s) == {s[i] : i \in 1..Len(s)}

(***************************************************************************)
(* A text as the generation service hands it over: a string, or undefined  *)
(* or null.                                                                *)
(***************************************************************************)
Str(s) == [k |-> "string", s |-> s]
Undefined == [k |-> "undefined", s |-> <<>>]
Null == [k |-> "null", s |-> <<>>]

\* !text
Falsy(text) == text.k # "string" \/ text.s = <<>>

\* String(text), as JSON.parse converts its argument
ToStr(text) ==
    CASE text.k = "string" -> text.s
      [] text.k = "undefined" -> <<"u", "n", "d", "e", "f", "i", "n", "e", "d">>
      [] text.k = "null" -> <<"n", "u", "l", "l">>

(***************************************************************************)
(* The response sanitizer, the same function in both server variants.      *)
(***************************************************************************)
\* the grave accent character (a string literal of this notation cannot hold it)
Tick == "U+0060"

FenceOpen == <<Tick, Tick, Tick, "j", "s", "o", "n">>
FenceClose == <<Tick, Tick, Tick>>

cleanAIResponse(text) ==
    IF Falsy(text) THEN <<>>
    ELSE LET t0 == Trim(text.s)
             t1 == IF StartsWith(t0, FenceOpen) THEN Trim(Substring(t0, 7)) ELSE t0
             t2 == IF EndsWith(t1, FenceClose) THEN Trim(SubSeq(t1, 1, Len(t1) - 3)) ELSE t1
         IN t2

(***************************************************************************)
(* JSON values.  Every value is a record of the same shape, so that any    *)
(* two values can be compared: t is the type, b a boolean's value, n a     *)
(* number's, s a string's characters, keys and kids an object's keys and   *)
(* member values in the order JavaScript enumerates them (integer-like     *)
(* keys first, ascending, then the others in insertion order), kids alone  *)
(* an array's elements.  Numbers are the integers; the alphabet of the     *)
(* modelled texts holds no fraction or exponent character and no \u        *)
(* escape.                                                                 *)
(***************************************************************************)
JNull == [t |-> "null", b |-> FALSE, n |-> 0, s |-> <<>>, keys |-> <<>>, kids |-> <<>>]
JBool(b) == [JNull EXCEPT !.t = "bool", !.b = b]
JNum(n) == [JNull EXCEPT !.t = "num", !.n = n]
JStr(s) == [JNull EXCEPT !.t = "str", !.s = s]
JArr(kids) == [JNull EXCEPT !.t = "arr", !.kids = kids]
JObj(keys, kids) == [JNull EXCEPT !.t = "obj", !.keys = keys, !.kids = kids]

\* !v for a JSON value v
JFalsy(v) ==
    \/ v.t = "null"
    \/ v.t = "bool" /\ ~v.b
    \/ v.t = "num" /\ v.n = 0
    \/ v.t = "str" /\ v.s = <<>>

Digits == <<"0", "1", "2", "3", "4", "5", "6", "7", "8", "9">>
IsDigit(c) == c \in Range(Digits)
DigitVal(c) == (CHOOSE i \in 1..10 : Digits[i] = c) - 1

\* String(n) for an integer n
RECURSIVE NatToStr(_)
NatToStr(n) ==
    IF n < 10 THEN <<Digits[n + 1]>>
    ELSE NatToStr(n \div 10) \o <<Digits[(n % 10) + 1]>>

NumToStr(n) == IF n < 0 THEN <<"-">> \o NatToStr(-n) ELSE NatToStr(n)

Quote == "\""
Backslash == "\\"
\* the backspace character U+0008 (a string literal of this notation cannot hold it)
Backspace == "U+0008"

\* the escape JSON.stringify writes for one character of a string
EscapeChar(c) ==
    CASE c = Quote -> <<Backslash, Quote>>
      [] c = Backslash -> <<Backslash, Backslash>>
      [] c = "\n" -> <<Backslash, "n">>
      [] c = "\r" -> <<Backslash, "r">>
      [] c = "\t" -> <<Backslash, "t">>
      [] c = Backspace -> <<Backslash, "b">>
      [] c = "\f" -> <<Backslash, "f">>
      [] OTHER -> <<c>>

RECURSIVE EscapeStr(_)
EscapeStr(s) == IF s = <<>> THEN <<>> ELSE EscapeChar(Head(s)) \o EscapeStr(Tail(s))

\* a serializer that writes a string's characters between the quotes unescaped
QuoteStrRaw(s) == <<Quote>> \o s \o <<Quote>>

\* a string between quotes, as JSON.stringify writes it
QuoteStr(s) == <<Quote>> \o EscapeStr(s) \o <<Quote>>

\* JSON.stringify(v), without indentation
RECURSIVE JSONstringify(_)
JSONstringify(v) ==
    CASE v.t = "null" -> <<"n", "u", "l", "l">>
      [] v.t = "bool" -> IF v.b THEN <<"t", "r", "u", "e">>
                         ELSE <<"f", "a", "l", "s", "e">>
      [] v.t = "num" -> NumToStr(v.n)
      [] v.t = "str" -> QuoteStr(v.s)
      [] v.t = "arr" ->
           <<"[">> \o Join([i \in 1..Len(v.kids) |-> JSONstringify(v.kids[i])], <<",">>)
                   \o <<"]">>
      [] v.t = "obj" ->
           <<"{">> \o Join([i \in 1..Len(v.kids) |->
                              QuoteStr(v.keys[i]) \o <<":">> \o JSONstringify(v.kids[i])],
                           <<",">>)
                   \o <<"}">>

(***************************************************************************)
(* JSON.parse: a recursive-descent reading of the text.  A parse step      *)
(* answers [ok, val, pos]: whether it read a value, the value, and the     *)
(* index after it.                                                         *)
(***************************************************************************)
ParseFail == [ok |-> FALSE, val |-> JNull, pos |-> 0]
ParseOk(v, p) == [ok |-> TRUE, val |-> v, pos |-> p]

\* JSON whitespace is the space, the line feed, the tab and the carriage return

RECURSIVE SkipWs(_, _)
SkipWs(s, i) ==
    IF i <= Len(s) /\ s[i] \in {" ", "\n", "\t", "\r"} THEN SkipWs(s, i + 1) ELSE i

Matches(s, i, lit) == i + Len(lit) - 1 <= Len(s) /\ SubSeq(s, i, i + Len(lit) - 1) = lit

\* the character an escape sequence \e stands for (<<>>: not an escape)
Unescape(e) ==
    CASE e = Quote -> <<Quote>>
      [] e = Backslash -> <<Backslash>>
      [] e = "/" -> <<"/">>
      [] e = "n" -> <<"\n">>
      [] e = "r" -> <<"\r">>
      [] e = "t" -> <<"\t">>
      [] e = "b" -> <<Backspace>>
      [] e = "f" -> <<"\f">>
      [] OTHER -> <<>>

\* the characters of a string literal from index j (after the opening quote) on
RECURSIVE ScanStr(_, _, _)
ScanStr(s, j, acc) ==
    IF j > Len(s) THEN ParseFail
    ELSE IF s[j] = Quote THEN ParseOk(JStr(acc), j + 1)
    ELSE IF s[j] = Backslash THEN
        IF j + 1 > Len(s) \/ Unescape(s[j + 1]) = <<>> THEN ParseFail
        ELSE ScanStr(s, j + 2, acc \o Unescape(s[j + 1]))
    ELSE IF s[j] \in {"\n", "\r", "\t", "\f", Backspace} THEN ParseFail
    ELSE ScanStr(s, j + 1, Append(acc, s[j]))

RECURSIVE ScanDigits(_, _, _)
ScanDigits(s, j, acc) ==
    IF j <= Len(s) /\ IsDigit(s[j]) THEN ScanDigits(s, j + 1, acc * 10 + DigitVal(s[j]))
    ELSE [val |-> acc, pos |-> j]

\* -?(0|[1-9][0-9]*)
ParseNumber(s, i) ==
    LET neg == s[i] = "-"
        j == IF neg THEN i + 1 ELSE i
    IN IF j > Len(s) \/ ~IsDigit(s[j]) THEN ParseFail
       ELSE IF s[j] = "0" THEN ParseOk(JNum(0), j + 1)
       ELSE LET d == ScanDigits(s, j, 0)
            IN ParseOk(JNum(IF neg THEN -d.val ELSE d.val), d.pos)

\* a before b, for two digit strings of the same length
RECURSIVE DigitsLess(_, _)
DigitsLess(a, b) ==
    /\ a # <<>>
    /\ \/ DigitVal(Head(a)) < DigitVal(Head(b))
       \/ Head(a) = Head(b) /\ DigitsLess(Tail(a), Tail(b))

\* a before b, for two canonical digit strings, as numbers
IndexLess(a, b) == Len(a) < Len(b) \/ (Len(a) = Len(b) /\ DigitsLess(a, b))

\* an integer-like key (an array index): a canonical decimal below 2^32 - 1
IsIndexKey(key) ==
    /\ key # <<>> /\ \A i \in 1..Len(key) : IsDigit(key[i])
    /\ Len(key) = 1 \/ key[1] # "0"
    /\ IndexLess(key, <<"4", "2", "9", "4", "9", "6", "7", "2", "9", "5">>)

\* obj[key] = val on a JavaScript object: a key already there keeps its place;
\* a new integer-like key goes among the integer-like keys, which come first in
\* ascending order; any other new key goes last
SetMember(keys, kids, key, val) ==
    IF \E i \in 1..Len(keys) : keys[i] = key
    THEN LET i == CHOOSE i \in 1..Len(keys) : keys[i] = key
         IN <<keys, [kids EXCEPT ![i] = val]>>
    ELSE IF IsIndexKey(key)
    THEN LET n == Cardinality({i \in 1..Len(keys) :
                                IsIndexKey(keys[i]) /\ IndexLess(keys[i], key)})
         IN <<SubSeq(keys, 1, n) \o <<key>> \o SubSeq(keys, n + 1, Len(keys)),
              SubSeq(kids, 1, n) \o <<val>> \o SubSeq(kids, n + 1, Len(kids))>>
    ELSE <<Append(keys, key), Append(kids, val)>>

RECURSIVE ParseValue(_, _), ParseElems(_, _, _), ParseMembers(_, _, _, _)
ParseValue(s, i) ==
    IF i > Len(s) THEN ParseFail
    ELSE IF Matches(s, i, <<"n", "u", "l", "l">>) THEN ParseOk(JNull, i + 4)
    ELSE IF Matches(s, i, <<"t", "r", "u", "e">>) THEN ParseOk(JBool(TRUE), i + 4)
    ELSE IF Matches(s, i, <<"f", "a", "l", "s", "e">>) THEN ParseOk(JBool(FALSE), i + 5)
    ELSE IF s[i] = Quote THEN ScanStr(s, i + 1, <<>>)
    ELSE IF s[i] = "-" \/ IsDigit(s[i]) THEN ParseNumber(s, i)
    ELSE IF s[i] = "[" THEN
        LET j == SkipWs(s, i + 1)
        IN IF j <= Len(s) /\ s[j] = "]" THEN ParseOk(JArr(<<>>), j + 1)
           ELSE ParseElems(s, j, <<>>)
    ELSE IF s[i] = "{" THEN
        LET j == SkipWs(s, i + 1)
        IN IF j <= Len(s) /\ s[j] = "}" THEN ParseOk(JObj(<<>>, <<>>), j + 1)
           ELSE ParseMembers(s, j, <<>>, <<>>)
    ELSE ParseFail

\* the elements of an array from index i (at an element) on
ParseElems(s, i, acc) ==
    LET r == ParseValue(s, i)
    IN IF ~r.ok THEN ParseFail
       ELSE LET j == SkipWs(s, r.pos)
            IN IF j > Len(s) THEN ParseFail
               ELSE IF s[j] = "]" THEN ParseOk(JArr(Append(acc, r.val)), j + 1)
               ELSE IF s[j] = "," THEN ParseElems(s, SkipWs(s, j + 1), Append(acc, r.val))
               ELSE ParseFail

\* the members of an object from index i (at a key) on
ParseMembers(s, i, keys, kids) ==
    IF i > Len(s) \/ s[i] # Quote THEN ParseFail
    ELSE LET k == ScanStr(s, i + 1, <<>>)
         IN IF ~k.ok THEN ParseFail
            ELSE LET c == SkipWs(s, k.pos)
                 IN IF c > Len(s) \/ s[c] # ":" THEN ParseFail
                    ELSE LET r == ParseValue(s, SkipWs(s, c + 1))
                         IN IF ~r.ok THEN ParseFail
                            ELSE LET j == SkipWs(s, r.pos)
                                     m == SetMember(keys, kids, k.val.s, r.val)
                                 IN IF j > Len(s) THEN ParseFail
                                    ELSE IF s[j] = "}"
                                         THEN ParseOk(JObj(m[1], m[2]), j + 1)
                                    ELSE IF s[j] = ","
                                         THEN ParseMembers(s, SkipWs(s, j + 1), m[1], m[2])
                                    ELSE ParseFail

\* JSON.parse(s) of a string s: [ok, val], ok = FALSE where it throws SyntaxError
JSONparseStr(s) ==
    LET r == ParseValue(s, SkipWs(s, 1))
    IN IF r.ok /\ SkipWs(s, r.pos) > Len(s) THEN [ok |-> TRUE, val |-> r.val]
       ELSE [ok |-> FALSE, val |-> JNull]

\* JSON.parse(text): the argument is converted to a string first
JSONparse(text) == JSONparseStr(ToStr(text))

(***************************************************************************)
(* Request payloads (req.body after express.json()).  A field that is      *)
(* absent (undefined) is <<>>, a field that is there is <<value>>; present *)
(* is whether req.body itself is there.                                    *)
(***************************************************************************)
NoBody ==
    [present |-> FALSE, ingredientsText |-> <<>>, cuisine |-> <<>>, days |-> <<>>,
     mealTypes |-> <<>>, familySize |-> <<>>, dietaryType |-> <<>>, duration |-> <<>>,
     healthGoal |-> <<>>, mealName |-> <<>>, recipeRequest |-> <<>>,
     mealPlan |-> <<>>, mealData |-> <<>>, mealId |-> <<>>]

EmptyBody == [NoBody EXCEPT !.present = TRUE]

Absent(f) == f = <<>>

\* `${x}` for a string field: String(undefined) is "undefined"
ShowStr(f) == IF Absent(f) THEN <<"u", "n", "d", "e", "f", "i", "n", "e", "d">> ELSE f[1]

\* `${x}` for a number field
ShowNum(f) == IF Absent(f) THEN <<"u", "n", "d", "e", "f", "i", "n", "e", "d">>
              ELSE NumToStr(f[1])

\* !x for a string field
StrFalsy(f) == Absent(f) \/ f[1] = <<>>

\* String.prototype.toLowerCase
ToLowerCase(s) ==
    LET Upper == <<"A", "B", "C", "D", "E", "F", "G", "H", "I", "J", "K", "L", "M",
                   "N", "O", "P", "Q", "R", "S", "T", "U", "V", "W", "X", "Y", "Z">>
        Lower == <<"a", "b", "c", "d", "e", "f", "g", "h", "i", "j", "k", "l", "m",
                   "n", "o", "p", "q", "r", "s", "t", "u", "v", "w", "x", "y", "z">>
        LowerChar(c) ==
            IF c \in Range(Upper) THEN Lower[CHOOSE i \in 1..26 : Upper[i] = c] ELSE c
    IN [i \in 1..Len(s) |-> LowerChar(s[i])]

\* what a prompt builder answers: the prompt, or ok = FALSE where it throws
Built(p) == [ok |-> TRUE, prompt |-> p]
Thrown == [ok |-> FALSE, prompt |-> <<>>]

(***************************************************************************)
(* getMealPlanPrompt (server.js).                                          *)
(***************************************************************************)
LitHasIngredients == "The user has these ingredients: "
LitPrioritize == ". Prioritize using leftovers and ingredients with early expiry dates."
LitFromScratch == "The user is starting from scratch. Generate a meal plan and a comprehensive shopping list for all needed items."

\* ingredientsText && ingredientsText.trim() !== ""
HasIngredients(payload) ==
    ~StrFalsy(payload.ingredientsText) /\ Trim(payload.ingredientsText[1]) # <<>>

ingredientsString(payload) ==
    IF HasIngredients(payload)
    THEN <<LitHasIngredients>> \o payload.ingredientsText[1] \o <<LitPrioritize>>
    ELSE <<LitFromScratch>>

dietString(payload) ==
    IF ~StrFalsy(payload.dietaryType)
       /\ ToLowerCase(payload.dietaryType[1]) # <<"n", "o", "n", "e">>
    THEN <<"The entire plan must be ">> \o payload.dietaryType[1] \o <<".">>
    ELSE <<>>

getMealPlanPrompt(payload) ==
    IF Absent(payload.mealTypes) THEN Thrown
    ELSE Built(<<"\n        You are an expert AI meal planner. Create a detailed meal plan based on the user's request.\n        Request Details:\n        - Cuisine: ">> \o ShowStr(payload.cuisine)
               \o <<"\n        - Duration: ">> \o ShowNum(payload.days)
               \o <<" days\n        - Family Size: ">> \o ShowNum(payload.familySize)
               \o <<" people\n        - Meals to Include: ">> \o Join(payload.mealTypes[1], <<",", " ">>)
               \o <<"\n        - Dietary Needs: ">>
               \o (IF dietString(payload) = <<>> THEN <<"N", "o", "n", "e">>
                   ELSE dietString(payload))
               \o <<"\n        - Available Ingredients: ">> \o ingredientsString(payload)
               \o <<"\n        \n        Generate a complete plan, scaling all recipes for the specified family size and ensuring every meal has a title and detailed, step-by-step instructions. Instructions should be clear and comprehensive.\n    ">>)

(***************************************************************************)
(* The prompt builders of the earlier variant (part_000).                  *)
(***************************************************************************)

\* the template stretch after ${ingredientsText} in getIngredientsPrompt
LitPrioritizeExpiry == ". Prioritize items with expiry dates.\n    - Meal Types: "

getIngredientsPrompt(payload) ==
    IF Absent(payload.mealTypes) THEN Thrown
    ELSE Built(<<"\n    You are an expert AI meal planner. Generate a multi-day meal plan based on the user's ingredients.\n    User's Request:\n    - Ingredients: ">> \o ShowStr(payload.ingredientsText)
               \o <<LitPrioritizeExpiry>> \o Join(payload.mealTypes[1], <<",", " ">>)
               \o <<"\n    - Cuisine: ">> \o ShowStr(payload.cuisine)
               \o <<"\n    - Dietary Needs: ">> \o ShowStr(payload.dietaryType)
               \o <<"\n    - Duration: ">> \o ShowNum(payload.days)
               \o <<" days\n    - Family Size: ">> \o ShowNum(payload.familySize)
               \o <<" people\n    Your Task & Strict Rules:\n    1.  Generate a meal plan for the exact number of days requested.\n    2.  For EVERY meal, you MUST include: \"title\", \"cuisine\", \"healthTag\", \"ingredientsUsed\", \"missingIngredients\", and \"instructions\".\n    3.  Respond with ONLY a valid JSON object in the format: { \"type\": \"meal_plan\", \"data\": [{...mealObject...}] }\n  ">>)

getPlanFromScratchPrompt(payload) ==
    IF Absent(payload.mealTypes) THEN Thrown
    ELSE Built(<<"\n    You are an expert AI meal planner. Generate a meal plan and a smart, categorized shopping list.\n    User's Request:\n    - Meal Types: ">> \o Join(payload.mealTypes[1], <<",", " ">>)
               \o <<"\n    - Duration: ">> \o ShowNum(payload.duration) \o <<" days">>
               \o <<"\n    - Cuisine: ">> \o ShowStr(payload.cuisine)
               \o <<"\n    - Dietary Needs: ">> \o ShowStr(payload.dietaryType)
               \o <<"\n    - Health Goal: ">> \o ShowStr(payload.healthGoal)
               \o <<"\n    - Family Size: ">> \o ShowNum(payload.familySize)
               \o <<" people\n    Your Task & Strict Rules:\n    1.  Generate a meal plan and a categorized shopping list.\n    2.  For EVERY meal, you MUST include: \"title\", \"cuisine\", \"healthTag\", \"ingredientsUsed\", \"missingIngredients\", and \"instructions\".\n    3.  The shopping list must be categorized (e.g., \"Produce\", \"Protein\", \"Dairy\").\n    4.  Respond with ONLY a valid JSON object in the format: { \"type\": \"shopping_list_plan\", \"shoppingList\": {\"category\": [\"item1\", ...]}, \"mealPlan\": [{...mealObject...}] }\n  ">>)

getRecipePrompt(payload) ==
    Built(<<"\n    You are an expert AI recipe creator. Generate a recipe ">>
          \o (IF StrFalsy(payload.mealName) THEN <<"using the ingredients provided">>
              ELSE <<"for \"">> \o payload.mealName[1] \o <<Quote>>)
          \o <<".\n    User's Request:\n    - Ingredients: ">>
          \o (IF StrFalsy(payload.ingredientsText) THEN <<"N", "o", "n", "e">>
              ELSE payload.ingredientsText[1])
          \o <<"\n    - Meal Name: ">>
          \o (IF StrFalsy(payload.mealName) THEN <<"Not specified">>
              ELSE payload.mealName[1])
          \o <<"\n    Your Task & Strict Rules:\n    1.  Generate a single, clear recipe.\n    2.  The recipe object MUST contain: \"title\", \"cuisine\", \"ingredients\", \"instructions\", and \"nutritionInfo\".\n    3.  Respond with ONLY a valid JSON object in the format: { \"type\": \"single_recipe\", \"data\": {...recipeObject...} }\n  ">>)

(***************************************************************************)
(* Responses and the per-request handler state.                            *)
(***************************************************************************)
\* no response sent yet
NoResp == [status |-> 0, kind |-> "none", text |-> <<>>, doc |-> JNull, rows |-> <<>>]
\* res.status(st).json({ error: msg })
ErrorResp(st, msg) == [NoResp EXCEPT !.status = st, !.kind = "error", !.text = msg]
\* res.status(st).json({ message: msg })
MessageResp(st, msg) == [NoResp EXCEPT !.status = st, !.kind = "message", !.text = msg]
\* res.json(doc): the status defaults to 200
JsonResp(doc) == [NoResp EXCEPT !.status = 200, !.kind = "json", !.doc = doc]
\* res.status(200).json(rows)
RowsResp(rows) == [NoResp EXCEPT !.status = 200, !.kind = "rows", !.rows = rows]

\* a request that has not arrived yet
IdleReq ==
    [op |-> "", body |-> NoBody, pc |-> "idle", prompt |-> <<>>, genCalls |-> 0,
     storeCalls |-> 0, decodes |-> 0, outcome |-> "none", text |-> Undefined,
     arg |-> <<>>, affected |-> 0, sent |-> 0, resp |-> NoResp]

\* the awaited calls settle: a text came back ("returned"), or a call rejected
\* or threw ("failed")
Settle(q, outcome) == [q EXCEPT !.outcome = outcome]

\* the handler sends resp and returns
Respond(q, resp) == [q EXCEPT !.sent = @ + 1, !.resp = resp, !.pc = "returned"]

MsgBodyMissing == <<"Request body is missing.">>
MsgPlanFailed == <<"Failed to generate meal plan due to a server error.">>
MsgPlanUnreadable ==
    <<"The AI returned a response in an unreadable format. Please try again.">>
MsgApiFailed == <<"Failed to generate response due to a server error.">>
MsgApiUnreadable == <<"The AI returned a response in an unreadable format.">>

(***************************************************************************)
(* POST /api/generate-plan (server.js).                                    *)
(***************************************************************************)
\* an inner catch that echoes the text it could not parse
planDecodeFaultLeak(text) == ErrorResp(500, MsgPlanUnreadable \o ToStr(text))

\* the inner catch: the text is logged, the response is fixed
planDecodeFault(text) == ErrorResp(500, MsgPlanUnreadable)

\* an outer catch that answers with the inner catch's message
planGenerationFaultSame == ErrorResp(500, MsgPlanUnreadable)

\* the outer catch
planGenerationFault == ErrorResp(500, MsgPlanFailed)

\* from the route's entry to the await of model.generateContent(prompt)
generatePlanStart(q) ==
    IF ~q.body.present THEN Respond(q, ErrorResp(400, MsgBodyMissing))
    ELSE LET b == getMealPlanPrompt(q.body)
         IN IF ~b.ok THEN Respond(q, planGenerationFault)
            ELSE [q EXCEPT !.prompt = b.prompt, !.genCalls = @ + 1, !.pc = "awaitGen"]

\* from the resumption after await result.response on: response.text(), then
\* JSON.parse(responseText), unsanitized
generatePlanResume(q, text) ==
    LET p == JSONparse(text)
        q1 == [q EXCEPT !.text = text, !.decodes = @ + 1]
    IN IF p.ok THEN Respond(q1, JsonResp(p.val)) ELSE Respond(q1, planDecodeFault(text))

(***************************************************************************)
(* handleApiRequest (part_000), behind /api/generate-from-ingredients,     *)
(* /api/plan-from-scratch and /api/find-recipe.                            *)
(***************************************************************************)
ApiOps == {"generate-from-ingredients", "plan-from-scratch", "find-recipe"}

\* the getPrompt argument each route passes
getPrompt(op, payload) ==
    CASE op = "generate-from-ingredients" -> getIngredientsPrompt(payload)
      [] op = "plan-from-scratch" -> getPlanFromScratchPrompt(payload)
      [] op = "find-recipe" -> getRecipePrompt(payload)

apiDecodeFault(cleanedText) == ErrorResp(500, MsgApiUnreadable)

apiGenerationFault == ErrorResp(500, MsgApiFailed)

handleApiRequestStart(q) ==
    IF ~q.body.present THEN Respond(q, ErrorResp(400, MsgBodyMissing))
    ELSE LET b == getPrompt(q.op, q.body)
         IN IF ~b.ok THEN Respond(q, apiGenerationFault)
            ELSE [q EXCEPT !.prompt = b.prompt, !.genCalls = @ + 1, !.pc = "awaitGen"]

handleApiRequestResume(q, text) ==
    LET cleanedText == cleanAIResponse(text)
        p == JSONparseStr(cleanedText)
        q1 == [q EXCEPT !.text = text, !.decodes = @ + 1]
    IN IF p.ok THEN Respond(q1, JsonResp(p.val))
       ELSE Respond(q1, apiDecodeFault(cleanedText))

(***************************************************************************)
(* POST /api/generate-recipe (server.js): the handler's body is empty.     *)
(***************************************************************************)
generateRecipeHandler(q) == [q EXCEPT !.pc = "returned"]

(***************************************************************************)
(* The inputs of the generation routes: payloads, and the texts the        *)
(* generation service may answer with.                                     *)
(***************************************************************************)
kMealPlan == <<"m", "e", "a", "l", "_", "p", "l", "a", "n">>
kShoppingList == <<"s", "h", "o", "p", "p", "i", "n", "g", "_", "l", "i", "s", "t">>
kDay == <<"d", "a", "y">>
kLunch == <<"l", "u", "n", "c", "h">>
kDinner == <<"d", "i", "n", "n", "e", "r">>
kTitle == <<"t", "i", "t", "l", "e">>
kInstructions == <<"i", "n", "s", "t", "r", "u", "c", "t", "i", "o", "n", "s">>
kIngredientsUsed ==
    <<"i", "n", "g", "r", "e", "d", "i", "e", "n", "t", "s", "U", "s", "e", "d">>
kMissingIngredients ==
    <<"m", "i", "s", "s", "i", "n", "g", "I", "n", "g", "r", "e", "d", "i", "e", "n", "t", "s">>

\* a MealEntry of the schema (mealPlanSchema: breakfast / lunch / dinner)
MealEntry(title, instructions, used, missing) ==
    JObj(<<kTitle, kInstructions, kIngredientsUsed, kMissingIngredients>>,
         <<JStr(title),
           JArr([i \in 1..Len(instructions) |-> JStr(instructions[i])]),
           JArr([i \in 1..Len(used) |-> JStr(used[i])]),
           JArr([i \in 1..Len(missing) |-> JStr(missing[i])])>>)

\* {"meal_plan":[{"day":"Day 1","lunch":{...}}]}: no shopping_list, one day
DocLunch ==
    JObj(<<kMealPlan>>,
         <<JArr(<<JObj(<<kDay, kLunch>>,
                       <<JStr(<<"D", "a", "y", " ", "1">>),
                         MealEntry(<<"R", "i", "c", "e">>,
                                   <<<<"C", "o", "o", "k">>, <<"S", "t", "i", "r">>>>,
                                   <<<<"r", "i", "c", "e">>>>, <<>>)>>)>>)>>)

\* a document whose strings hold a quote, a backslash, a line break and a fence
DocDinner ==
    JObj(<<kShoppingList, kMealPlan>>,
         <<JArr(<<JStr(<<"s", "a", "l", "t">>)>>),
           JArr(<<JObj(<<kDay, kDinner>>,
                       <<JStr(<<"D", Quote, "2">>),
                         MealEntry(<<"a", Backslash, "b">>,
                                   <<<<"1", "\n", "2">>>>,
                                   <<>>, <<FenceClose>>)>>)>>)>>)

ValidDocs == {DocLunch, DocDinner}

\* the literal JSON encoding of a document, bare
Bare(doc) == Str(JSONstringify(doc))
\* ... wrapped in a leading ```json marker and a trailing ``` marker, on their own lines
Fenced(doc) == Str(FenceOpen \o <<"\n">> \o JSONstringify(doc) \o <<"\n">> \o FenceClose)
\* ... wrapped without line breaks, with blanks around
FencedTight(doc) ==
    Str(<<" ">> \o FenceOpen \o JSONstringify(doc) \o FenceClose \o <<"\n">>)

NotJson == <<"n", "o", "t", " ", "j", "s", "o", "n">>
Sorry == <<"S", "o", "r", "r", "y">>

GenTexts ==
    {Bare(d) : d \in ValidDocs} \cup {Fenced(d) : d \in ValidDocs}
    \cup {FencedTight(d) : d \in ValidDocs}
    \cup {Str(NotJson), Str(Sorry), Str(<<"{">>), Str(<<>>), Undefined}

Lunch == <<"L", "u", "n", "c", "h">>
Dinner == <<"D", "i", "n", "n", "e", "r">>
Eggs == <<"2", " ", "e", "g", "g", "s">>
Pho == <<"P", "h", "o">>

PlanFull ==
    [EmptyBody EXCEPT !.ingredientsText = <<Eggs>>, !.cuisine = <<<<"T", "h", "a", "i">>>>, !.days = <<2>>,
                      !.duration = <<2>>, !.mealTypes = <<<<Lunch, Dinner>>>>,
                      !.familySize = <<4>>]

PlanBodies ==
    {NoBody, PlanFull,
     [PlanFull EXCEPT !.ingredientsText = <<>>],
     [PlanFull EXCEPT !.cuisine = <<>>],
     [PlanFull EXCEPT !.days = <<>>, !.duration = <<>>],
     [PlanFull EXCEPT !.mealTypes = <<>>],
     [PlanFull EXCEPT !.familySize = <<>>]}

RecipeBodies ==
    {NoBody, EmptyBody,
     [EmptyBody EXCEPT !.ingredientsText = <<Eggs>>],
     [EmptyBody EXCEPT !.mealName = <<<<>>>>, !.recipeRequest = <<<<>>>>],
     [EmptyBody EXCEPT !.mealName = <<Pho>>],
     [EmptyBody EXCEPT !.recipeRequest = <<Pho>>]}

\* the two requests in flight
ReqIds == {1, 2}

(***************************************************************************)
(* The generation routes as a state machine: a request arrives, its        *)
(* handler runs to the await of the generation call, the call returns or   *)
(* fails (on /api/generate-plan a second await, of the result's response,  *)
(* follows), the handler answers.                                          *)
(***************************************************************************)
StoreIdle ==
    /\ meal_plans = <<>> /\ favorite_meals = <<>>
    /\ nextPlanId = 1 /\ nextFavId = 1 /\ clock = 0 /\ saved = <<>>

SanIdle == sanIn = Undefined /\ sanOut = <<>>

PbIdle == pbReq = <<>>

InitGen ==
    /\ reqs = [r \in ReqIds |-> IdleReq]
    /\ StoreIdle /\ SanIdle /\ PbIdle

GenFrame ==
    UNCHANGED <<meal_plans, favorite_meals, nextPlanId, nextFavId, clock, saved,
                sanIn, sanOut, pbReq>>

Arrive(r, op, body) == [reqs[r] EXCEPT !.op = op, !.body = body]

GeneratePlanReceive(r) ==
    /\ reqs[r].pc = "idle"
    /\ \E body \in PlanBodies :
         reqs' = [reqs EXCEPT ![r] = generatePlanStart(Arrive(r, "generate-plan", body))]
    /\ GenFrame

\* model.generateContent(prompt) resolved: the handler resumes with the result
\* and suspends again at its second await, of result.response
GeneratePlanResolved(r) ==
    /\ reqs[r].pc = "awaitGen" /\ reqs[r].op = "generate-plan"
    /\ reqs' = [reqs EXCEPT ![r].pc = "awaitResponse"]
    /\ GenFrame

\* the second await resumes with a response whose text() gives text
GeneratePlanReturn(r) ==
    /\ reqs[r].pc = "awaitResponse" /\ reqs[r].op = "generate-plan"
    /\ \E text \in GenTexts :
         reqs' = [reqs EXCEPT ![r] = generatePlanResume(Settle(reqs[r], "returned"), text)]
    /\ GenFrame

\* model.generateContent(prompt) rejects: the outer catch answers
GeneratePlanFail(r) ==
    /\ reqs[r].pc = "awaitGen" /\ reqs[r].op = "generate-plan"
    /\ reqs' = [reqs EXCEPT ![r] = Respond(Settle(reqs[r], "failed"), planGenerationFault)]
    /\ GenFrame

\* the awaited result.response rejects, or response.text() throws: the outer
\* catch answers, JSON.parse is never called
GeneratePlanResponseFail(r) ==
    /\ reqs[r].pc = "awaitResponse" /\ reqs[r].op = "generate-plan"
    /\ reqs' = [reqs EXCEPT ![r] = Respond(Settle(reqs[r], "failed"), planGenerationFault)]
    /\ GenFrame

ApiReceive(r) ==
    /\ reqs[r].pc = "idle"
    /\ \E op \in ApiOps :
         \E body \in (IF op = "find-recipe" THEN RecipeBodies ELSE PlanBodies) :
           reqs' = [reqs EXCEPT ![r] = handleApiRequestStart(Arrive(r, op, body))]
    /\ GenFrame

\* handleApiRequest has one await: the resumption, result.response.text(),
\* the sanitizer, the parse and the response are one step
ApiReturn(r) ==
    /\ reqs[r].pc = "awaitGen" /\ reqs[r].op \in ApiOps
    /\ \E text \in GenTexts :
         reqs' = [reqs EXCEPT ![r] = handleApiRequestResume(Settle(reqs[r], "returned"), text)]
    /\ GenFrame

\* model.generateContent(prompt) rejects, or result.response.text() throws in
\* the resumption: the outer catch answers
ApiFail(r) ==
    /\ reqs[r].pc = "awaitGen" /\ reqs[r].op \in ApiOps
    /\ reqs' = [reqs EXCEPT ![r] = Respond(Settle(reqs[r], "failed"), apiGenerationFault)]
    /\ GenFrame

GenerateRecipe(r) ==
    /\ reqs[r].pc = "idle"
    /\ \E body \in RecipeBodies :
         reqs' = [reqs EXCEPT ![r] =
                    generateRecipeHandler(Arrive(r, "generate-recipe", body))]
    /\ GenFrame

NextGen ==
    \E r \in ReqIds :
        \/ GeneratePlanReceive(r)
        \/ GeneratePlanResolved(r)
        \/ GeneratePlanReturn(r)
        \/ GeneratePlanFail(r)
        \/ GeneratePlanResponseFail(r)
        \/ ApiReceive(r)
        \/ ApiReturn(r)
        \/ ApiFail(r)
        \/ GenerateRecipe(r)

SpecGen == InitGen /\ [][NextGen]_vars

(***************************************************************************)
(* Properties of the generation routes.                                    *)
(***************************************************************************)
Done(r) == reqs[r].pc = "returned"

\* the routes that generate a meal plan, and those that generate one recipe
PlanOps == {"generate-plan", "generate-from-ingredients", "plan-from-scratch"}
RecipeOps == {"generate-recipe", "find-recipe"}

\* whether the text a route hands to JSON.parse parses
Decodes(op, text) ==
    IF op = "generate-plan" THEN JSONparse(text).ok
    ELSE JSONparseStr(cleanAIResponse(text)).ok

\* C1: a meal-plan generation request whose generation call returns the JSON
\* encoding of a valid document, bare or wrapped in fence markers, is answered
\* with that document (status 200), never with a failure.
C1_FencedOrBareDocSucceeds ==
    \A r \in ReqIds : \A d \in ValidDocs :
        (/\ Done(r) /\ reqs[r].op \in PlanOps /\ reqs[r].outcome = "returned"
         /\ reqs[r].text \in {Bare(d), Fenced(d), FencedTight(d)})
        => reqs[r].sent = 1 /\ reqs[r].resp = JsonResp(d)

\* C3: a single-recipe request without recipeRequest and without mealName is
\* answered 400 and makes no generation call.
C3_RecipeWithoutNameShortCircuits ==
    \A r \in ReqIds :
        (/\ Done(r) /\ reqs[r].op \in RecipeOps
         /\ StrFalsy(reqs[r].body.recipeRequest) /\ StrFalsy(reqs[r].body.mealName))
        => reqs[r].sent = 1 /\ reqs[r].resp.status = 400 /\ reqs[r].genCalls = 0

\* C4: a handler that has returned, with no call of its own still pending, has
\* sent exactly one response.
C4_EveryRequestAnsweredOnce ==
    \A r \in ReqIds :
        Done(r) => reqs[r].sent = 1 /\ reqs[r].resp.status \in {200, 201, 400, 500}

GenerationFailedMsg(op) == IF op = "generate-plan" THEN MsgPlanFailed ELSE MsgApiFailed
UnreadableMsg(op) == IF op = "generate-plan" THEN MsgPlanUnreadable ELSE MsgApiUnreadable

GenerationFaulted(r) == Done(r) /\ reqs[r].genCalls = 1 /\ reqs[r].outcome = "failed"
DecodeFaulted(r) ==
    /\ Done(r) /\ reqs[r].genCalls = 1 /\ reqs[r].outcome = "returned"
    /\ ~Decodes(reqs[r].op, reqs[r].text)

\* C5: a failed generation call is answered 500 with the generation-failed
\* message and without any decode; a returned text that does not parse is
\* answered 500 with the unreadable-format message; no generation fault and
\* decode fault share a response body.
C5_FaultClassDecidesResponse ==
    /\ \A r \in ReqIds :
         /\ GenerationFaulted(r) =>
              /\ reqs[r].resp = ErrorResp(500, GenerationFailedMsg(reqs[r].op))
              /\ reqs[r].decodes = 0 /\ reqs[r].sent = 1
         /\ DecodeFaulted(r) =>
              /\ reqs[r].resp = ErrorResp(500, UnreadableMsg(reqs[r].op))
              /\ reqs[r].sent = 1
    /\ \A r1, r2 \in ReqIds :
         GenerationFaulted(r1) /\ DecodeFaulted(r2)
         => reqs[r1].resp.text # reqs[r2].resp.text

\* one request ended by a generation fault, the other by a decode fault
C5_Witness ==
    /\ GenerationFaulted(1) /\ DecodeFaulted(2)
    /\ reqs[1].op = "generate-plan" /\ reqs[2].op = "generate-plan"

\* C6: two requests to the same route with the same body whose texts both fail
\* to decode get the same response, whatever the texts.
C6_DecodeFaultHidesText ==
    \A r1, r2 \in ReqIds :
        (/\ DecodeFaulted(r1) /\ DecodeFaulted(r2)
         /\ reqs[r1].op = reqs[r2].op /\ reqs[r1].body = reqs[r2].body)
        => reqs[r1].resp = reqs[r2].resp

\* two decode faults on the same route and body, from different texts
C6_Witness ==
    /\ DecodeFaulted(1) /\ DecodeFaulted(2)
    /\ reqs[1].op = reqs[2].op /\ reqs[1].body = reqs[2].body
    /\ reqs[1].text = Str(NotJson) /\ reqs[2].text = Str(Sorry)

\* the required field a request lacks, per route
LacksRequired(q) ==
    \/ q.op = "generate-plan" /\ (\/ Absent(q.body.cuisine) \/ Absent(q.body.days)
                                  \/ Absent(q.body.mealTypes)
                                  \/ Absent(q.body.familySize))
    \/ q.op = "save-meal-plan" /\ Absent(q.body.mealPlan)
    \/ q.op = "add-favorite-meal" /\ Absent(q.body.mealData)
    \/ q.op = "remove-favorite-meal" /\ Absent(q.body.mealId)

\* C7: a request that lacks a required field is answered 400 before any call
\* to the generation service or to the record store.
C7_MissingFieldIsValidationFault ==
    \A r \in DOMAIN reqs :
        Done(r) /\ LacksRequired(reqs[r])
        => /\ reqs[r].sent = 1 /\ reqs[r].resp.status = 400
           /\ reqs[r].genCalls = 0 /\ reqs[r].storeCalls = 0

(***************************************************************************)
(* The sanitizer applied twice to one text.                                *)
(***************************************************************************)
Pieces == {FenceOpen, FenceClose, <<" ">>, <<"\n">>, <<"{", "}">>, <<Tick>>}

\* the concatenations of at most n pieces
PieceTexts(n) == {Concat(ps) : ps \in UNION {[1..k -> Pieces] : k \in 0..n}}

SanInputs == {Undefined, Null} \cup {Str(s) : s \in PieceTexts(MaxPieces)}

InitSan ==
    /\ sanIn \in SanInputs /\ sanOut = <<>>
    /\ reqs = <<>> /\ StoreIdle /\ PbIdle

\* cleanAIResponse on the input, then on its own output
Sanitize ==
    /\ Len(sanOut) < 2
    /\ sanOut' = Append(sanOut, cleanAIResponse(IF sanOut = <<>> THEN sanIn
                                                ELSE Str(sanOut[Len(sanOut)])))
    /\ UNCHANGED <<reqs, meal_plans, favorite_meals, nextPlanId, nextFavId, clock,
                   saved, sanIn, pbReq>>

SpecSan == InitSan /\ [][Sanitize]_vars

\* C2: the sanitizer answers every text, null and undefined included, and
\* sanitizing its output again changes nothing.
C2_SanitizerIdempotent ==
    Len(sanOut) = 2 => sanOut[2] = sanOut[1]

(***************************************************************************)
(* The meal-plan prompt builders applied to two payloads.                  *)
(***************************************************************************)
\* how long an ingredientsText the prompt builders are given
MaxIngLen == 2

IngChars == {" ", "e"}

IngTexts == UNION {[1..k -> IngChars] : k \in 0..MaxIngLen}

\* valid PlanRequests: every required field there, mealTypes non-empty
PbPayloads ==
    {[PlanFull EXCEPT !.ingredientsText = ing, !.dietaryType = diet, !.mealTypes = <<mt>>] :
        ing \in {<<>>} \cup {<<t>> : t \in IngTexts},
        diet \in {<<>>, <<<<"N", "o", "n", "e">>>>, <<<<"V", "e", "g", "a", "n">>>>},
        mt \in {<<Lunch>>, <<Lunch, Dinner>>}}

Builders == {"getMealPlanPrompt", "getIngredientsPrompt"}

ApplyBuilder(builder, payload) ==
    CASE builder = "getMealPlanPrompt" -> getMealPlanPrompt(payload)
      [] builder = "getIngredientsPrompt" -> getIngredientsPrompt(payload)

InitPrompt ==
    /\ pbReq \in [{1, 2} -> {[builder |-> b, payload |-> p, built |-> FALSE, out |-> Thrown] :
                               b \in Builders, p \in PbPayloads}]
    /\ reqs = <<>> /\ StoreIdle /\ SanIdle

BuildPrompt(i) ==
    /\ ~pbReq[i].built
    /\ pbReq' = [pbReq EXCEPT ![i].built = TRUE,
                              ![i].out = ApplyBuilder(pbReq[i].builder, pbReq[i].payload)]
    /\ UNCHANGED <<reqs, meal_plans, favorite_meals, nextPlanId, nextFavId, clock,
                   saved, sanIn, sanOut>>

NextPrompt == \E i \in {1, 2} : BuildPrompt(i)

SpecPrompt == InitPrompt /\ [][NextPrompt]_vars

\* absent, empty or only whitespace
BlankField(f) == Absent(f) \/ \A c \in Range(f[1]) : IsWs(c)

\* t is a run of consecutive elements of s
Contains(s, t) == \E k \in 1..(Len(s) - Len(t) + 1) : SubSeq(s, k, k + Len(t) - 1) = t

\* the prompt gives the from-scratch shopping-list instruction
InstructsFromScratch(prompt) == LitFromScratch \in Range(prompt)

\* the prompt holds the ingredient text, followed by the builder's instruction to
\* prioritise what is there (leftovers and early expiry dates in server.js,
\* items with expiry dates in the earlier variant)
PrioritizesIngredients(prompt, ing) ==
    \E lit \in {LitPrioritize, LitPrioritizeExpiry} : Contains(prompt, ing \o <<lit>>)

\* the branch a built prompt took, read off its text
BranchesOnIngredients(p) ==
    /\ p.out.ok
    /\ BlankField(p.payload.ingredientsText) => InstructsFromScratch(p.out.prompt)
    /\ ~BlankField(p.payload.ingredientsText) =>
         /\ PrioritizesIngredients(p.out.prompt, p.payload.ingredientsText[1])
         /\ ~InstructsFromScratch(p.out.prompt)

\* C9: every meal-plan prompt builder branches on ingredient presence: a
\* PlanRequest whose ingredientsText is absent, empty or only whitespace gives
\* a prompt with the from-scratch shopping-list instruction; one whose
\* ingredientsText is non-blank gives a prompt with the ingredient text and the
\* instruction to prioritise it, and without the from-scratch instruction; and
\* two requests with the same builder and PlanRequest, built in either order,
\* get the same prompt.
C9_PromptBranchesOnIngredients ==
    /\ \A i \in {1, 2} : pbReq[i].built => BranchesOnIngredients(pbReq[i])
    /\ (/\ pbReq[1].built /\ pbReq[2].built
        /\ pbReq[1].builder = pbReq[2].builder /\ pbReq[1].payload = pbReq[2].payload)
       => pbReq[1].out = pbReq[2].out

(***************************************************************************)
(* The record-store routes of server.js.  The store (knex over the         *)
(* development database) is the environment: an insert appends a row with  *)
(* the table's next id and the current timestamp, a select answers the     *)
(* rows in insertion order, a delete removes the rows its where clause     *)
(* matches, and any of the three may fail instead.                         *)
(***************************************************************************)
MsgPlanRequired == <<"Meal plan data is required.">>
MsgPlanSaved == <<"Meal plan saved successfully!">>
MsgSaveFailed == <<"Failed to save meal plan.">>
MsgFetchPlansFailed == <<"Failed to fetch meal plans.">>
MsgMealRequired == <<"Meal data is required.">>
MsgFavAdded == <<"Meal added to favorites!">>
MsgFavAddFailed == <<"Failed to add meal to favorites.">>
MsgIdRequired == <<"Meal ID is required.">>
MsgFavRemoved == <<"Meal removed from favorites!">>
MsgFavRemoveFailed == <<"Failed to remove meal from favorites.">>
MsgFetchFavsFailed == <<"Failed to fetch favorite meals.">>

\* the handler calls the store and awaits it
CallStore(q) == [q EXCEPT !.storeCalls = @ + 1, !.pc = "awaitStore"]

\* POST /api/save-meal-plan up to the await; destructuring an undefined body throws
saveMealPlanStart(q) ==
    IF ~q.body.present THEN Respond(q, ErrorResp(500, MsgSaveFailed))
    ELSE IF Absent(q.body.mealPlan) \/ JFalsy(q.body.mealPlan[1])
         THEN Respond(q, ErrorResp(400, MsgPlanRequired))
    ELSE CallStore([q EXCEPT !.arg = JSONstringify(q.body.mealPlan[1])])

\* POST /api/add-favorite-meal up to the await
addFavoriteMealStart(q) ==
    IF ~q.body.present THEN Respond(q, ErrorResp(500, MsgFavAddFailed))
    ELSE IF Absent(q.body.mealData) \/ JFalsy(q.body.mealData[1])
         THEN Respond(q, ErrorResp(400, MsgMealRequired))
    ELSE CallStore([q EXCEPT !.arg = JSONstringify(q.body.mealData[1])])

\* POST /api/remove-favorite-meal up to the await
removeFavoriteMealStart(q) ==
    IF ~q.body.present THEN Respond(q, ErrorResp(500, MsgFavRemoveFailed))
    ELSE IF Absent(q.body.mealId) \/ q.body.mealId[1] = 0
         THEN Respond(q, ErrorResp(400, MsgIdRequired))
    ELSE CallStore(q)

\* a delete that removes every row up to the id
deleteWhereIdUpTo(table, id) ==
    LET Keep(row) == row.id > id IN SelectSeq(table, Keep)

\* knex(table).where({ id }).del()
deleteWhereId(table, id) ==
    LET Keep(row) == row.id # id IN SelectSeq(table, Keep)

\* mealPlans.map(...): the rows with meal_plan_data decoded, or a throw
parsedMealPlans(rows) ==
    IF \A i \in 1..Len(rows) : JSONparseStr(rows[i].meal_plan_data).ok
    THEN [ok |-> TRUE,
          rows |-> [i \in 1..Len(rows) |->
                      [id |-> rows[i].id,
                       meal_plan_data |-> JSONparseStr(rows[i].meal_plan_data).val,
                       created_at |-> rows[i].created_at]]]
    ELSE [ok |-> FALSE, rows |-> <<>>]

\* favoriteMeals.map(...)
parsedFavoriteMeals(rows) ==
    IF \A i \in 1..Len(rows) : JSONparseStr(rows[i].meal_data).ok
    THEN [ok |-> TRUE,
          rows |-> [i \in 1..Len(rows) |->
                      [id |-> rows[i].id,
                       meal_data |-> JSONparseStr(rows[i].meal_data).val,
                       created_at |-> rows[i].created_at]]]
    ELSE [ok |-> FALSE, rows |-> <<>>]

\* the message of each route's catch
StoreFailedMsg(op) ==
    CASE op = "save-meal-plan" -> MsgSaveFailed
      [] op = "get-meal-plans" -> MsgFetchPlansFailed
      [] op = "add-favorite-meal" -> MsgFavAddFailed
      [] op = "remove-favorite-meal" -> MsgFavRemoveFailed
      [] op = "get-favorite-meals" -> MsgFetchFavsFailed

\* an opaque payload with a quote, a backslash, a negative number, null and true
PayloadMixed ==
    JArr(<<JStr(<<Quote, Backslash, Backspace, "\f">>), JNum(-12), JBool(TRUE),
           JObj(<<<<"1">>, <<"b">>>>, <<JNull, JNum(2)>>)>>)

PayloadMeal == MealEntry(<<"P", "h", "o">>, <<<<"B", "o", "i", "l">>>>, <<>>, <<>>)

SaveBodies ==
    {NoBody, EmptyBody, [EmptyBody EXCEPT !.mealPlan = <<JNum(0)>>],
     [EmptyBody EXCEPT !.mealPlan = <<DocLunch>>],
     [EmptyBody EXCEPT !.mealPlan = <<PayloadMixed>>]}

FavBodies == {EmptyBody, [EmptyBody EXCEPT !.mealData = <<PayloadMeal>>]}

RemoveBodies == {EmptyBody} \cup {[EmptyBody EXCEPT !.mealId = <<i>>] : i \in 0..2}

InitStore ==
    /\ reqs = [r \in 1..MaxReq |-> IdleReq]
    /\ StoreIdle /\ SanIdle /\ PbIdle

\* requests arrive in the order of their ids
MayArrive(r) == reqs[r].pc = "idle" /\ \A k \in 1..(r - 1) : reqs[k].pc # "idle"

TablesUnchanged ==
    UNCHANGED <<meal_plans, favorite_meals, nextPlanId, nextFavId, clock, saved>>
HarnessUnchanged == UNCHANGED <<sanIn, sanOut, pbReq>>

SaveMealPlanReceive(r) ==
    /\ MayArrive(r)
    /\ \E body \in SaveBodies :
         reqs' = [reqs EXCEPT ![r] = saveMealPlanStart(Arrive(r, "save-meal-plan", body))]
    /\ TablesUnchanged /\ HarnessUnchanged

\* the insert resolves: res.status(201)
SaveMealPlanInserted(r) ==
    /\ reqs[r].pc = "awaitStore" /\ reqs[r].op = "save-meal-plan"
    /\ meal_plans' = Append(meal_plans, [id |-> nextPlanId, meal_plan_data |-> reqs[r].arg,
                                         created_at |-> clock])
    /\ nextPlanId' = nextPlanId + 1
    /\ clock' = clock + 1
    /\ saved' = Append(saved, reqs[r].body.mealPlan[1])
    /\ reqs' = [reqs EXCEPT ![r] = Respond(Settle(reqs[r], "returned"),
                                           MessageResp(201, MsgPlanSaved))]
    /\ UNCHANGED <<favorite_meals, nextFavId>> /\ HarnessUnchanged

GetMealPlansReceive(r) ==
    /\ MayArrive(r)
    /\ reqs' = [reqs EXCEPT ![r] = CallStore(Arrive(r, "get-meal-plans", EmptyBody))]
    /\ TablesUnchanged /\ HarnessUnchanged

\* the select resolves: the rows are decoded and sent
GetMealPlansSelected(r) ==
    /\ reqs[r].pc = "awaitStore" /\ reqs[r].op = "get-meal-plans"
    /\ LET p == parsedMealPlans(meal_plans)
           q == Settle(reqs[r], "returned")
       IN reqs' = [reqs EXCEPT ![r] =
                     IF p.ok THEN Respond(q, RowsResp(p.rows))
                     ELSE Respond(q, ErrorResp(500, MsgFetchPlansFailed))]
    /\ TablesUnchanged /\ HarnessUnchanged

AddFavoriteMealReceive(r) ==
    /\ MayArrive(r)
    /\ \E body \in FavBodies :
         reqs' = [reqs EXCEPT ![r] =
                    addFavoriteMealStart(Arrive(r, "add-favorite-meal", body))]
    /\ TablesUnchanged /\ HarnessUnchanged

AddFavoriteMealInserted(r) ==
    /\ reqs[r].pc = "awaitStore" /\ reqs[r].op = "add-favorite-meal"
    /\ favorite_meals' = Append(favorite_meals, [id |-> nextFavId, meal_data |-> reqs[r].arg,
                                                 created_at |-> clock])
    /\ nextFavId' = nextFavId + 1
    /\ clock' = clock + 1
    /\ reqs' = [reqs EXCEPT ![r] = Respond(Settle(reqs[r], "returned"),
                                           MessageResp(201, MsgFavAdded))]
    /\ UNCHANGED <<meal_plans, nextPlanId, saved>> /\ HarnessUnchanged

RemoveFavoriteMealReceive(r) ==
    /\ MayArrive(r)
    /\ \E body \in RemoveBodies :
         reqs' = [reqs EXCEPT ![r] =
                    removeFavoriteMealStart(Arrive(r, "remove-favorite-meal", body))]
    /\ TablesUnchanged /\ HarnessUnchanged

\* the delete resolves (with the number of rows it removed): res.status(200)
RemoveFavoriteMealDeleted(r) ==
    /\ reqs[r].pc = "awaitStore" /\ reqs[r].op = "remove-favorite-meal"
    /\ favorite_meals' = deleteWhereId(favorite_meals, reqs[r].body.mealId[1])
    /\ reqs' = [reqs EXCEPT ![r] =
                  Respond([Settle(reqs[r], "returned") EXCEPT
                             !.affected = Len(favorite_meals) - Len(favorite_meals')],
                          MessageResp(200, MsgFavRemoved))]
    /\ UNCHANGED <<meal_plans, nextPlanId, nextFavId, clock, saved>> /\ HarnessUnchanged

GetFavoriteMealsReceive(r) ==
    /\ MayArrive(r)
    /\ reqs' = [reqs EXCEPT ![r] = CallStore(Arrive(r, "get-favorite-meals", EmptyBody))]
    /\ TablesUnchanged /\ HarnessUnchanged

GetFavoriteMealsSelected(r) ==
    /\ reqs[r].pc = "awaitStore" /\ reqs[r].op = "get-favorite-meals"
    /\ LET p == parsedFavoriteMeals(favorite_meals)
           q == Settle(reqs[r], "returned")
       IN reqs' = [reqs EXCEPT ![r] =
                     IF p.ok THEN Respond(q, RowsResp(p.rows))
                     ELSE Respond(q, ErrorResp(500, MsgFetchFavsFailed))]
    /\ TablesUnchanged /\ HarnessUnchanged

\* the awaited store call rejects: the route's catch answers 500
StoreCallFails(r) ==
    /\ reqs[r].pc = "awaitStore"
    /\ reqs' = [reqs EXCEPT ![r] = Respond(Settle(reqs[r], "failed"),
                                           ErrorResp(500, StoreFailedMsg(reqs[r].op)))]
    /\ TablesUnchanged /\ HarnessUnchanged

NextStore ==
    \E r \in 1..MaxReq :
        \/ SaveMealPlanReceive(r)
        \/ SaveMealPlanInserted(r)
        \/ GetMealPlansReceive(r)
        \/ GetMealPlansSelected(r)
        \/ AddFavoriteMealReceive(r)
        \/ AddFavoriteMealInserted(r)
        \/ RemoveFavoriteMealReceive(r)
        \/ RemoveFavoriteMealDeleted(r)
        \/ GetFavoriteMealsReceive(r)
        \/ GetFavoriteMealsSelected(r)
        \/ StoreCallFails(r)

SpecStore == InitStore /\ [][NextStore]_vars

(***************************************************************************)
(* Properties of the record-store routes.                                  *)
(***************************************************************************)
Ids(table) == {table[i].id : i \in 1..Len(table)}

\* a route's store call resolves in this step and the route answers status
Resolves(r, op, status) ==
    /\ reqs[r].op = op /\ reqs[r].pc = "awaitStore"
    /\ reqs'[r].pc = "returned" /\ reqs'[r].resp.status = status

\* the saved plans, as the table holds them: one row per save answered 201,
\* in order, each with an id of its own and a text that decodes to the
\* mealPlan of its save
PlansMatchSaves ==
    /\ Len(meal_plans) = Len(saved)
    /\ Cardinality(Ids(meal_plans)) = Len(meal_plans)
    /\ \A i \in 1..Len(meal_plans) :
         JSONparseStr(meal_plans[i].meal_plan_data) = [ok |-> TRUE, val |-> saved[i]]
    /\ Len(saved) = Cardinality({r \in DOMAIN reqs : reqs[r].op = "save-meal-plan"
                                                     /\ reqs[r].resp.status = 201})

\* C8: the table always holds one stored plan per successful save, with a
\* distinct id and a payload that decodes to the saved mealPlan; a list of the
\* saved plans answers exactly those records; no step changes a stored plan.
C8_ListReturnsSavedPlans ==
    /\ []PlansMatchSaves
    /\ [][/\ \A i \in 1..Len(meal_plans) : meal_plans'[i] = meal_plans[i]
          /\ \A r \in DOMAIN reqs :
               Resolves(r, "get-meal-plans", 200) =>
                 reqs'[r].resp.rows =
                   [i \in 1..Len(saved) |-> [id |-> meal_plans[i].id,
                                             meal_plan_data |-> saved[i],
                                             created_at |-> meal_plans[i].created_at]]
          /\ \A r \in DOMAIN reqs :
               (/\ reqs[r].op = "get-meal-plans" /\ reqs[r].pc = "awaitStore"
                /\ reqs'[r].outcome = "returned") => reqs'[r].resp.status = 200]_vars

\* two plans saved, one of them with characters the encoding escapes, and a
\* list answered with both
C8_Witness ==
    /\ saved = <<PayloadMixed, DocLunch>>
    /\ \E r \in DOMAIN reqs :
         /\ reqs[r].op = "get-meal-plans" /\ reqs[r].resp.status = 200
         /\ Len(reqs[r].resp.rows) = 2
         /\ reqs[r].resp.rows[1].meal_plan_data = PayloadMixed
         /\ reqs[r].resp.rows[2].meal_plan_data = DocLunch

\* C10: a remove-favorite that resolves deletes the favorite with the given id
\* and nothing else, answers the success message whether or not a favorite had
\* that id, and leaves the saved plans alone; a list of the favorites answers
\* the favorites the table holds, so none with a removed id.
C10_RemoveDeletesOnlyThatFavorite ==
    [][\A r \in DOMAIN reqs :
         /\ Resolves(r, "remove-favorite-meal", 200) =>
              LET i == reqs[r].body.mealId[1]
              IN /\ i \notin Ids(favorite_meals')
                 /\ \A k \in 1..Len(favorite_meals) :
                      favorite_meals[k].id # i =>
                        \E m \in 1..Len(favorite_meals') :
                          favorite_meals'[m] = favorite_meals[k]
                 /\ Len(favorite_meals') =
                      Len(favorite_meals) - (IF i \in Ids(favorite_meals) THEN 1 ELSE 0)
                 /\ i \notin Ids(favorite_meals) => favorite_meals' = favorite_meals
                 /\ meal_plans' = meal_plans
                 /\ reqs'[r].resp = MessageResp(200, MsgFavRemoved)
         /\ (reqs[r].op = "remove-favorite-meal" /\ reqs[r].pc = "awaitStore"
             /\ reqs'[r].outcome = "returned") => reqs'[r].resp.status = 200
         /\ Resolves(r, "get-favorite-meals", 200) =>
              /\ Len(reqs'[r].resp.rows) = Len(favorite_meals)
              /\ \A k \in 1..Len(favorite_meals) :
                   reqs'[r].resp.rows[k].id = favorite_meals[k].id]_vars

\* a remove that deleted the first of two favorites: the second is still there
C10_Witness ==
    \E r \in DOMAIN reqs :
        /\ reqs[r].op = "remove-favorite-meal" /\ reqs[r].resp.status = 200
        /\ reqs[r].body.mealId = <<1>> /\ reqs[r].affected = 1
        /\ Len(favorite_meals) = 1 /\ favorite_meals[1].id = 2

=============================================================================
